---------------------------- MODULE Spec2Model ----------------------------
(***************************************************************************)
(* State-machine model of src/src/main.cpp: the io_uring UDP send          *)
(* benchmark.  main() fills a buffer_pool with reserve(), then calls run() *)
(* three times ("basic" with the naive allocator, "buffer pool" and        *)
(* "fixed files" with the pool).  Each run() owns one io_uring and one     *)
(* socket and loops fill / submit / harvest until the deadline.            *)
(*                                                                         *)
(* The kernel side of the ring is modelled as an environment: submit       *)
(* consumes prepared entries, and every consumed send completes exactly    *)
(* once at an arbitrary later moment with an arbitrary result.             *)
(*                                                                         *)
(* Spec is the whole program, SpecRun one call of run() (SpecRunFair under *)
(* a fair scheduler), SpecPool a caller of the buffer_pool, SpecWrap the   *)
(* same with narrow head and tail counters, SpecBufRing a user of          *)
(* owned_io_uring_buf_ring, which main does not use.                       *)
(***************************************************************************)
EXTENDS Integers, Sequences, FiniteSets, Bags, TLC

(* ------------------------------ bounds ------------------------------- *)
\* buf_count (256 in main) scaled down: capacity of the buffer_pool.
Capacity == 3
\* Submission-queue depth of the ring (32 in initialize) scaled down.
RingEntries == 2
\* Heap addresses available beyond those the pool takes.
ExtraAddrs == 3
\* Submission depth run() asks initialize for (8 at line 198) scaled down,
\* below RingEntries as 8 is below 32.
RequestedEntries == 1
\* Largest number of loop iterations of one run() before the deadline.
MaxIter == 2
\* Largest number of calls the pool exerciser makes.
MaxCalls == 6
\* Binary logarithm of the capacity of the pool with narrow counters.
WrapLog == 1
\* Largest number of moves of an owned_io_uring_buf_ring after setup.
MaxMoves == 2

(* ----------------------------- constants ----------------------------- *)
NULL == 0
buf_size == 16
IOSQE_FIXED_FILE == 1
EXIT_SUCCESS == 0
EXIT_FAILURE == 1
\* Value of an owned_fd / exit code that holds nothing yet.
NoFd == -1
\* Negative result of a failed kernel call (-errno).
KernelError == -1

Addr == 1..(Capacity + ExtraAddrs)
\* Descriptors io_uring_queue_init can give the ring: the lowest unused one,
\* with the three standard streams open.
RingFds == {3}
\* Descriptors socket() can return: the lowest unused one, with the ring open.
Fds == {4}
\* The deadline of run(), std::chrono::seconds(1), in ticks of the clock: the
\* tick is the shortest time an iteration of the loop takes, so that MaxIter
\* iterations can start before the deadline has passed.
Deadline == MaxIter - 1
\* The clock is followed until it has passed the deadline.
MaxElapsed == Deadline + 1

VARIABLES
  pc,             \* position of the program (main and run)
  variant,        \* which call of run() in main: 1 basic, 2 buffer pool, 3 fixed files
  exit_code,      \* return value of main, NoFd while running
  output,         \* summary lines printed on stdout
  diag,           \* diagnostics printed on stderr (the set of their texts)
  call,           \* pool exerciser: the last call made on the pool, its result,
                  \* the allocation that failed in it (fail_at, 0: none)
  heap,           \* live new[] allocations
  buf_pool,       \* main's buffer_pool: [ring, head, tail]
  ring_open,      \* the run's owned_io_uring holds a live kernel ring
  socket_fd,      \* the run's owned_fd
  registered,     \* files registered with the ring (sequence of descriptors)
  sq,             \* submission entries acquired and not yet consumed by the kernel
  inflight,       \* sends the kernel consumed and has not completed (bag)
  cq,             \* completion records posted by the kernel since ring creation
  khead,          \* completion-queue head: records consumed by io_uring_cq_advance
  buf,            \* run: local buf.data() of the fill loop
  ret,            \* run: local ret of io_uring_submit
  i,              \* run: local i of the harvest phase
  cqe_head,       \* run: local head of io_uring_for_each_cqe
  datagram_count, \* run: local datagram_count
  iter,           \* iterations started by the current run
  elapsed,        \* run: steady_clock::now() - start, in ticks
  queue,          \* run: the owned_io_uring the local queue holds
  ring_exits,     \* history: calls of io_uring_queue_exit on the run's ring
  handles,        \* buf-ring exerciser: the owned_io_uring_buf_ring objects
  free_calls,     \* buf-ring exerciser: the calls of io_uring_free_buf_ring
  bufring_setup,  \* buf-ring exerciser: the call of setup and what it did
  outstanding,    \* history: buffers obtained in this run and not yet released
  released_twice, \* history: a release of a buffer that was not outstanding
  round_avail,    \* history: allocator supply at the start of the fill round
  round_obtained, \* history: buffers obtained in the current fill round
  round_prepared  \* history: sends prepared in the current fill round

vars == << pc, variant, exit_code, output, diag, call, heap, buf_pool, ring_open, socket_fd,
           registered, sq, inflight, cq, khead, buf, ret, i, cqe_head,
           datagram_count, iter, outstanding, released_twice, round_avail,
           round_obtained, round_prepared, elapsed, queue, ring_exits, handles,
           free_calls, bufring_setup >>

ringVars == << ring_open, socket_fd, registered, sq, inflight, cq, khead >>
localVars == << buf, ret, i, cqe_head, datagram_count, iter >>
histVars == << outstanding, released_twice, round_avail, round_obtained,
               round_prepared >>
mainVars == << variant, exit_code, output, call >>
handleVars == << handles, free_calls, bufring_setup >>

Min(S) == CHOOSE x \in S : \A y \in S : x <= y

(* ------------------------ operator new[] ----------------------------- *)
\* Results of new (std::nothrow) unsigned char[n]: nullptr, or storage
\* distinct from every live allocation.  Addresses are interchangeable (the
\* program never compares or does arithmetic on them), so the fresh address
\* is taken to be the lowest unused one.
NewResults(h) == {NULL} \cup (IF Addr \ h = {} THEN {} ELSE {Min(Addr \ h)})

(* --------------------------- buffer_pool ----------------------------- *)
EmptyPool == [ring |-> [k \in 0..(Capacity - 1) |-> NULL], head |-> 0, tail |-> 0]

\* Number of buffers in the pool.
PoolCount(p) == p.tail - p.head

\* The free region [head, tail) as a sequence of handles, oldest first.
PoolFree(p) == [k \in 1..PoolCount(p) |-> p.ring[(p.head + k - 1) % Capacity]]

\* Mutant of get_buffer: the head is not advanced.
get_buffer_peek(p) ==
  IF p.head = p.tail
    THEN [buf |-> NULL, size |-> 0, pool |-> p]
    ELSE [buf |-> p.ring[p.head % Capacity], size |-> buf_size, pool |-> p]

\* Mutant of get_buffer: the newest handle is returned, not the oldest.
get_buffer_lifo(p) ==
  IF p.head = p.tail
    THEN [buf |-> NULL, size |-> 0, pool |-> p]
    ELSE [buf |-> p.ring[(p.tail - 1) % Capacity], size |-> buf_size,
          pool |-> [p EXCEPT !.tail = @ - 1]]

\* buffer_pool::get_buffer: the span returned (data and size; the empty span
\* is {nullptr, 0}) and the pool afterwards: [buf, size, pool]
get_buffer(p) ==
  IF p.head = p.tail
    THEN [buf |-> NULL, size |-> 0, pool |-> p]
    ELSE [buf |-> p.ring[p.head % Capacity], size |-> buf_size,
          pool |-> [p EXCEPT !.head = @ + 1]]

\* Mutant of release_buffer: the full test is inverted.
release_buffer_inverted(p, b) ==
  IF p.tail # p.head + Capacity
    THEN [ok |-> FALSE, pool |-> p]
    ELSE [ok |-> TRUE,
          pool |-> [p EXCEPT !.ring[p.tail % Capacity] = b, !.tail = @ + 1]]

\* buffer_pool::release_buffer: [ok, pool]
release_buffer(p, b) ==
  IF p.tail = p.head + Capacity
    THEN [ok |-> FALSE, pool |-> p]
    ELSE [ok |-> TRUE,
          pool |-> [p EXCEPT !.ring[p.tail % Capacity] = b, !.tail = @ + 1]]

\* Mutant of add_new_buffer: the new buffer is stored at the head.
add_new_buffer_athead(p, h, n) ==
  IF p.tail = p.head + Capacity
    THEN [ok |-> FALSE, pool |-> p, heap |-> h]
    ELSE IF n = NULL
      THEN [ok |-> FALSE, pool |-> p, heap |-> h]
      ELSE [ok |-> TRUE,
            pool |-> [p EXCEPT !.ring[p.head % Capacity] = n, !.tail = @ + 1],
            heap |-> h \cup {n}]

\* buffer_pool::add_new_buffer, n the result of operator new[]: [ok, pool, heap]
add_new_buffer(p, h, n) ==
  IF p.tail = p.head + Capacity
    THEN [ok |-> FALSE, pool |-> p, heap |-> h]
    ELSE IF n = NULL
      THEN [ok |-> FALSE, pool |-> p, heap |-> h]
      ELSE [ok |-> TRUE,
            pool |-> [p EXCEPT !.ring[p.tail % Capacity] = n, !.tail = @ + 1],
            heap |-> h \cup {n}]

\* Mutant of reserve: the result of add_new_buffer is not looked at.
RECURSIVE reserve_unchecked(_, _, _, _)
reserve_unchecked(p, h, count, failAt) ==
  IF count = 0
    THEN [ok |-> TRUE, pool |-> p, heap |-> h]
    ELSE LET n == IF failAt = 1 \/ Addr \ h = {} THEN NULL ELSE Min(Addr \ h)
             r == add_new_buffer(p, h, n)
         IN  reserve_unchecked(r.pool, r.heap, count - 1, failAt - 1)

\* buffer_pool::reserve(count) where the failAt-th allocation (if any) yields
\* nullptr: [ok, pool, heap]
RECURSIVE reserve(_, _, _, _)
reserve(p, h, count, failAt) ==
  IF count = 0
    THEN [ok |-> TRUE, pool |-> p, heap |-> h]
    ELSE LET n == IF failAt = 1 \/ Addr \ h = {} THEN NULL ELSE Min(Addr \ h)
             r == add_new_buffer(p, h, n)
         IN  IF ~r.ok THEN r ELSE reserve(r.pool, r.heap, count - 1, failAt - 1)

\* buffer_pool::~buffer_pool: the heap after delete[] of every free handle
RECURSIVE pool_destroy(_, _)
pool_destroy(p, h) ==
  IF p.head = p.tail
    THEN h
    ELSE pool_destroy([p EXCEPT !.head = @ + 1], h \ {p.ring[p.head % Capacity]})

(* -------------------------- owned_io_uring --------------------------- *)
\* An owned_io_uring as its default member initialisers leave it (lines
\* 17-20): it holds no ring.
NoQueue == [ring_fd |-> NoFd, enter_ring_fd |-> NoFd]

\* The io_uring that io_uring_queue_init fills in for descriptor fd.
NewRing(fd) == [ring_fd |-> fd, enter_ring_fd |-> fd]

\* Mutant of owned_io_uring_move: the moved-from handle keeps the ring.
owned_io_uring_move_keep(other) == [new |-> other, other |-> other]

\* owned_io_uring(owned_io_uring &&other), lines 35-37: [new, other]
owned_io_uring_move(other) ==
  [new |-> other, other |-> [other EXCEPT !.enter_ring_fd = NoFd]]

\* ~owned_io_uring, lines 41-44: does it call io_uring_queue_exit?
owned_io_uring_dtor(h) == h.enter_ring_fd # NoFd

(* ------------------------ run(): parameters -------------------------- *)
\* The arguments main passes to the three calls of run().
fixed_files == variant = 3
UsesPool == variant \in {2, 3}
Name(v) == IF v = 1 THEN "basic" ELSE IF v = 2 THEN "buffer pool" ELSE "fixed files"

\* Positions inside the loop of run().
LoopPcs == {"deadline", "get_buffer", "get_sqe", "prep", "submit", "harvest"}

\* Positions inside run().
RunPcs == {"init", "socket", "register", "deadline", "get_buffer", "get_sqe",
           "prep", "submit", "harvest"}

\* Buffers the allocator of the current run can still hand out.
Available == IF UsesPool THEN PoolCount(buf_pool) ELSE Cardinality(Addr \ heap)

(* ------------------------- run(): leaving ---------------------------- *)
\* A return statement of run(): the locals go out of scope and the
\* destructors of socket and queue run (close, io_uring_queue_exit), which
\* unmaps the queues; the kernel drops what was in flight.
Return(result) ==
  /\ pc' = IF result THEN "ret_true" ELSE "ret_false"
  /\ ring_open' = (ring_open /\ ~owned_io_uring_dtor(queue))
  /\ ring_exits' = ring_exits + (IF owned_io_uring_dtor(queue) THEN 1 ELSE 0)
  /\ queue' = NoQueue
  /\ socket_fd' = NoFd
  /\ registered' = << >>
  /\ inflight' = EmptyBag
  /\ sq' = << >>
  /\ cq' = << >>
  /\ khead' = 0
  /\ buf' = NULL
  /\ i' = 0
  /\ cqe_head' = 0
  /\ datagram_count' = 0
  /\ iter' = 0
  /\ round_avail' = 0
  /\ round_obtained' = << >>
  /\ round_prepared' = 0

\* A failing return of run(), after the diagnostic msg on stderr.
Fail(msg) ==
  /\ diag' = diag \cup {msg}
  /\ Return(FALSE)
  /\ UNCHANGED elapsed

\* release_buffer of the run's allocator applied to b.
AllocRelease(b) ==
  /\ IF UsesPool
       THEN /\ buf_pool' = release_buffer(buf_pool, b).pool
            /\ UNCHANGED heap
       ELSE /\ heap' = heap \ {b}
            /\ UNCHANGED buf_pool
  /\ outstanding' = outstanding \ {b}
  /\ released_twice' = (released_twice \/ b \notin outstanding)

(* ------------------------------ main --------------------------------- *)
\* main, lines 293-299: construct the allocators and reserve(buf_count).
MainReserve ==
  /\ pc = "reserve"
  /\ \E failAt \in 0..Capacity :
       LET r == reserve(buf_pool, heap, Capacity, failAt)
       IN  IF r.ok
             THEN /\ buf_pool' = r.pool
                  /\ heap' = r.heap
                  /\ variant' = 1
                  /\ pc' = "init"
                  /\ UNCHANGED << exit_code, diag >>
             ELSE /\ diag' = diag \cup {"Failed to create buffer pool."}
                  /\ buf_pool' = [r.pool EXCEPT !.head = r.pool.tail]
                  /\ heap' = pool_destroy(r.pool, r.heap)
                  /\ exit_code' = EXIT_FAILURE
                  /\ pc' = "exit"
                  /\ UNCHANGED variant
  /\ UNCHANGED << output, call, ringVars, localVars, histVars >>
  /\ UNCHANGED << elapsed, queue, ring_exits, handleVars >>

\* Mutant of MainNext: the result of run() is looked at only after the last
\* variant.
MainNext_continue ==
  /\ pc \in {"ret_true", "ret_false"}
  /\ IF variant < 3
       THEN /\ variant' = variant + 1
            /\ pc' = "init"
            /\ UNCHANGED << exit_code, heap, buf_pool >>
       ELSE /\ exit_code' = IF pc = "ret_true" THEN EXIT_SUCCESS ELSE EXIT_FAILURE
            /\ pc' = "exit"
            /\ buf_pool' = [buf_pool EXCEPT !.head = buf_pool.tail]
            /\ heap' = pool_destroy(buf_pool, heap)
            /\ UNCHANGED variant
  /\ ret' = 0
  /\ outstanding' = {}
  /\ released_twice' = FALSE
  /\ UNCHANGED << output, diag, call, ringVars, buf, i, cqe_head, datagram_count,
                  iter, round_avail, round_obtained, round_prepared >>
  /\ ring_exits' = 0
  /\ UNCHANGED << elapsed, queue, handleVars >>

\* main, lines 301-310: a call of run() came back.
MainNext ==
  /\ pc \in {"ret_true", "ret_false"}
  /\ IF pc = "ret_true" /\ variant < 3
       THEN /\ variant' = variant + 1
            /\ pc' = "init"
            /\ UNCHANGED << exit_code, heap, buf_pool >>
       ELSE /\ exit_code' = IF pc = "ret_true" THEN EXIT_SUCCESS ELSE EXIT_FAILURE
            /\ pc' = "exit"
            /\ buf_pool' = [buf_pool EXCEPT !.head = buf_pool.tail]
            /\ heap' = pool_destroy(buf_pool, heap)
            /\ UNCHANGED variant
  /\ ret' = 0
  /\ outstanding' = {}
  /\ released_twice' = FALSE
  /\ UNCHANGED << output, diag, call, ringVars, buf, i, cqe_head, datagram_count,
                  iter, round_avail, round_obtained, round_prepared >>
  /\ ring_exits' = 0
  /\ UNCHANGED << elapsed, queue, handleVars >>

(* ------------------------------- run --------------------------------- *)
\* run, lines 198-202: owned_io_uring::initialize.  The handle built at line
\* 30 is moved into the std::expected that run() keeps as queue, and the
\* temporary is destroyed.
Initialize ==
  /\ pc = "init"
  /\ \E r \in {0, KernelError} :
       IF r < 0
         THEN Fail("io_uring_queue_init")
         ELSE \E fd \in RingFds :
              LET m == owned_io_uring_move(NewRing(fd))
                  exits == owned_io_uring_dtor(m.other)
              IN  /\ queue' = m.new
                  /\ ring_open' = ~exits
                  /\ ring_exits' = IF exits THEN 1 ELSE 0
                  /\ pc' = "socket"
                  /\ UNCHANGED << diag, socket_fd, registered, sq, inflight, cq,
                                  khead, buf, i, cqe_head, datagram_count, iter,
                                  round_avail, round_obtained, round_prepared,
                                  elapsed >>
  /\ UNCHANGED << mainVars, heap, buf_pool, ret, outstanding, released_twice >>
  /\ UNCHANGED handleVars

\* run, lines 204-208 and 218-225: owned_fd::create_socket, then (without
\* fixed_files) the locals, start = now() among them.
CreateSocket ==
  /\ pc = "socket"
  /\ \E r \in Fds \cup {-1} :
       IF r = -1
         THEN Fail("socket")
         ELSE /\ socket_fd' = r
              /\ pc' = IF fixed_files THEN "register" ELSE "deadline"
              /\ elapsed' = 0
              /\ UNCHANGED << diag, ring_open, registered, sq, inflight, cq, khead, buf,
                              i, cqe_head, datagram_count, iter, round_avail,
                              round_obtained, round_prepared, queue, ring_exits >>
  /\ UNCHANGED << mainVars, heap, buf_pool, ret, outstanding, released_twice >>
  /\ UNCHANGED handleVars

\* run, lines 210-223: io_uring_register_files, then start = now().
RegisterFiles ==
  /\ pc = "register"
  /\ \E r \in {0, KernelError} :
       IF r # 0
         THEN Fail("io_uring_register_files")
         ELSE /\ registered' = << socket_fd >>
              /\ pc' = "deadline"
              /\ elapsed' = 0
              /\ UNCHANGED << diag, ring_open, socket_fd, sq, inflight, cq, khead, buf,
                              i, cqe_head, datagram_count, iter, round_avail,
                              round_obtained, round_prepared, queue, ring_exits >>
  /\ UNCHANGED << mainVars, heap, buf_pool, ret, outstanding, released_twice >>
  /\ UNCHANGED handleVars

\* Mutant of DeadlinePassed: the loop ends when the deadline is reached, not
\* when it is passed.
DeadlinePassed_early(e) == e >= Deadline

\* The test of line 229: now - start > std::chrono::seconds(1).
DeadlinePassed(e) == e > Deadline

\* Values steady_clock::now() - start can have at line 228: anything up to
\* MaxElapsed the first time, more than the previous reading afterwards (the
\* clock is monotonic and an iteration takes at least a tick).
ClockReadings == IF iter = 0 THEN 0..MaxElapsed ELSE (elapsed + 1)..MaxElapsed

\* run, lines 227-230 and 284-286: the clock is read and the deadline tested
\* at the top of the loop.
CheckDeadline ==
  /\ pc = "deadline"
  /\ \E now \in ClockReadings :
       /\ elapsed' = now
       /\ IF DeadlinePassed(now)
            THEN /\ output' = Append(output, [name |-> Name(variant),
                                              count |-> datagram_count])
                 /\ Return(TRUE)
            ELSE /\ iter < MaxIter
                 /\ iter' = iter + 1
                 /\ pc' = "get_buffer"
                 /\ round_avail' = Available
                 /\ round_obtained' = << >>
                 /\ round_prepared' = 0
                 /\ UNCHANGED << output, ringVars, buf, i, cqe_head, datagram_count,
                                 queue, ring_exits >>
  /\ UNCHANGED << variant, exit_code, diag, call, heap, buf_pool, ret, outstanding,
                  released_twice >>
  /\ UNCHANGED handleVars

\* Mutant of GetBuffer: an allocator that yields nothing fails the run.
GetBuffer_fatal ==
  /\ pc = "get_buffer"
  /\ \E b \in (IF UsesPool THEN {get_buffer(buf_pool).buf} ELSE NewResults(heap)) :
       /\ IF UsesPool
            THEN buf_pool' = get_buffer(buf_pool).pool /\ UNCHANGED heap
            ELSE heap' = (IF b = NULL THEN heap ELSE heap \cup {b}) /\ UNCHANGED buf_pool
       /\ IF b = NULL
            THEN /\ Fail("Not enough buffers.")
                 /\ UNCHANGED << outstanding >>
            ELSE /\ pc' = "get_sqe"
                 /\ UNCHANGED << diag, ringVars, i, cqe_head, datagram_count, iter,
                                 round_avail, round_prepared, elapsed, queue,
                                 ring_exits >>
                 /\ buf' = b
                 /\ outstanding' = outstanding \cup {b}
                 /\ round_obtained' = Append(round_obtained, b)
  /\ UNCHANGED << mainVars, ret, released_twice >>
  /\ UNCHANGED handleVars

\* run, lines 233-237: buffers.get_buffer() of the run's allocator.
GetBuffer ==
  /\ pc = "get_buffer"
  /\ \E b \in (IF UsesPool THEN {get_buffer(buf_pool).buf} ELSE NewResults(heap)) :
       /\ IF UsesPool
            THEN buf_pool' = get_buffer(buf_pool).pool /\ UNCHANGED heap
            ELSE heap' = (IF b = NULL THEN heap ELSE heap \cup {b}) /\ UNCHANGED buf_pool
       /\ IF b = NULL
            THEN /\ diag' = diag \cup {"Not enough buffers."}
                 /\ pc' = "submit"
                 /\ UNCHANGED << buf, outstanding, round_obtained >>
            ELSE /\ pc' = "get_sqe"
                 /\ UNCHANGED diag
                 /\ buf' = b
                 /\ outstanding' = outstanding \cup {b}
                 /\ round_obtained' = Append(round_obtained, b)
  /\ UNCHANGED << mainVars, ringVars, ret, i, cqe_head, datagram_count, iter,
                  released_twice, round_avail, round_prepared >>
  /\ UNCHANGED << elapsed, queue, ring_exits, handleVars >>

\* A submission entry as io_uring_get_sqe hands it out, before it is prepared.
BlankSqe == [fd |-> NoFd, flags |-> 0, user_data |-> NULL]

\* Submission depth of the ring initialize(entries, flags) creates: line 26
\* passes 32 to io_uring_queue_init whatever entries is.
SqDepth(entries) == RingEntries

\* io_uring_get_sqe yields nothing: every entry of the ring that
\* initialize(8, 0) created is in use.
SqFull(q) == Len(q) = SqDepth(RequestedEntries)

\* run, lines 239-243: io_uring_get_sqe, and the release when the queue is full.
GetSqe ==
  /\ pc = "get_sqe"
  /\ IF SqFull(sq)
       THEN /\ AllocRelease(buf)
            /\ pc' = "submit"
            /\ buf' = NULL
            /\ UNCHANGED sq
       ELSE /\ sq' = Append(sq, BlankSqe)
            /\ pc' = "prep"
            /\ UNCHANGED << heap, buf_pool, buf, outstanding, released_twice >>
  /\ UNCHANGED << mainVars, diag, ring_open, socket_fd, registered, inflight, cq,
                  khead, ret, i, cqe_head, datagram_count, iter, round_avail,
                  round_obtained, round_prepared >>
  /\ UNCHANGED << elapsed, queue, ring_exits, handleVars >>

\* Mutant of PreparedSqe: the fixed-file flag is forgotten.
PreparedSqe_noflag(fixed, fd, b) ==
  [fd |-> IF fixed THEN 0 ELSE fd, flags |-> 0, user_data |-> b]

\* The entry lines 245-256 write: io_uring_prep_sendto, the flag, set_data.
PreparedSqe(fixed, fd, b) ==
  IF fixed
    THEN [fd |-> 0, flags |-> IOSQE_FIXED_FILE, user_data |-> b]
    ELSE [fd |-> fd, flags |-> 0, user_data |-> b]

\* run, lines 245-256: prepare the send on the entry just acquired.
PrepSend ==
  /\ pc = "prep"
  /\ sq' = [sq EXCEPT ![Len(sq)] = PreparedSqe(fixed_files, socket_fd, buf)]
  /\ round_prepared' = round_prepared + 1
  /\ buf' = NULL
  /\ pc' = "get_buffer"
  /\ UNCHANGED << mainVars, diag, heap, buf_pool, ring_open, socket_fd, registered,
                  inflight, cq, khead, ret, i, cqe_head, datagram_count, iter,
                  outstanding, released_twice, round_avail, round_obtained >>
  /\ UNCHANGED << elapsed, queue, ring_exits, handleVars >>

\* Outcomes of io_uring_submit with n entries pending: the kernel leaves
\* the last o of them in the queue (0: it takes them all) or, as outcome n,
\* takes none and the call fails.
SubmitOutcomes(n) == 0..n

\* The value io_uring_submit returns for an outcome: the number of entries
\* the kernel consumed, or a negative error.  With nothing pending the call
\* returns 0 without entering the kernel.
SubmitResult(n, o) == IF n = 0 THEN 0 ELSE IF o = n THEN KernelError ELSE n - o

\* The test run() applies to the value of io_uring_submit (line 260), n the
\* number of entries that were pending.
SubmitFailed(r, n) == r < 0

\* The bag of the entries q[1..n].
Consumed(q, n) ==
  [s \in {q[k] : k \in 1..n} |-> Cardinality({k \in 1..n : q[k] = s})]

\* run, lines 259-267: io_uring_submit, then the start of the harvest.
Submit ==
  /\ pc = "submit"
  /\ \E o \in SubmitOutcomes(Len(sq)) :
     LET r == SubmitResult(Len(sq), o) IN
       /\ ret' = r
       /\ IF SubmitFailed(r, Len(sq))
            THEN Fail("io_uring_submit")
            ELSE /\ inflight' = inflight (+) Consumed(sq, r)
                 /\ sq' = SubSeq(sq, r + 1, Len(sq))
                 /\ i' = 0
                 /\ cqe_head' = khead
                 /\ pc' = "harvest"
                 /\ round_avail' = 0
                 /\ round_obtained' = << >>
                 /\ round_prepared' = 0
                 /\ UNCHANGED << diag, ring_open, socket_fd, registered, cq, khead,
                                 buf, datagram_count, iter, elapsed, queue,
                                 ring_exits >>
  /\ UNCHANGED << mainVars, heap, buf_pool, outstanding, released_twice >>
  /\ UNCHANGED handleVars

\* Mutant of CqeFailed: the result of a completion is not looked at.
CqeFailed_never(cqe) == FALSE

\* The test run() applies to a completion record (line 272).
CqeFailed(cqe) == cqe.res < 0

\* run, lines 269-279: one pass of the body of io_uring_for_each_cqe.
HarvestOne ==
  /\ pc = "harvest"
  /\ cqe_head # Len(cq)
  /\ LET cqe == cq[cqe_head + 1]
     IN  /\ AllocRelease(cqe.user_data)
         /\ IF CqeFailed(cqe)
              THEN Fail("sendto")
              ELSE /\ datagram_count' = datagram_count + 1
                   /\ i' = i + 1
                   /\ cqe_head' = cqe_head + 1
                   /\ UNCHANGED << pc, diag, ringVars, buf, iter, round_avail,
                                   round_obtained, round_prepared, elapsed, queue,
                                   ring_exits >>
  /\ UNCHANGED << mainVars, ret >>
  /\ UNCHANGED handleVars

\* Mutant of cq_advance: the head is never advanced, so the next harvest
\* meets the same records again.
cq_advance_stuck(h, n) == h

\* Mutant of cq_advance: the head moves by one record whatever n is.
cq_advance_one(h, n) == h + 1

\* The completion-queue head after io_uring_cq_advance(ring, n).
cq_advance(h, n) == h + n

\* run, lines 269 and 281: the loop finds no further record; io_uring_cq_advance.
CqAdvance ==
  /\ pc = "harvest"
  /\ cqe_head = Len(cq)
  /\ khead' = cq_advance(khead, i)
  /\ pc' = "deadline"
  /\ UNCHANGED << mainVars, diag, heap, buf_pool, ring_open, socket_fd, registered,
                  sq, inflight, cq, localVars, histVars >>
  /\ UNCHANGED << elapsed, queue, ring_exits, handleVars >>

(* ------------------------------ kernel ------------------------------- *)
\* Result codes of a completed send: the bytes sent, or a negative error.
SendResults == {buf_size, KernelError}

\* The kernel completes one send in flight and posts its completion record.
KernelComplete ==
  /\ ring_open
  /\ \E s \in BagToSet(inflight), res \in SendResults :
       /\ inflight' = inflight (-) SetToBag({s})
       /\ cq' = Append(cq, [user_data |-> s.user_data, res |-> res])
  /\ UNCHANGED << pc, mainVars, diag, heap, buf_pool, ring_open, socket_fd,
                  registered, sq, khead, localVars, histVars >>
  /\ UNCHANGED << elapsed, queue, ring_exits, handleVars >>

(* --------------------------- specification --------------------------- *)
\* No owned_io_uring_buf_ring exists and setup was not called.
NoSetup == [called |-> FALSE, ring |-> NULL, entry_count |-> 0, group_id |-> 0,
            created |-> NULL, returned |-> "none"]

\* The value of call while no call has been made on the pool.
NoCall == [op |-> "none", arg |-> NULL, ok |-> FALSE, buf |-> NULL,
           was_free |-> FALSE, fail_at |-> 0, n |-> 0]

Init ==
  /\ pc = "reserve"
  /\ variant = 0
  /\ exit_code = NoFd
  /\ output = << >>
  /\ diag = {}
  /\ call = NoCall
  /\ heap = {}
  /\ buf_pool = EmptyPool
  /\ ring_open = FALSE
  /\ socket_fd = NoFd
  /\ registered = << >>
  /\ sq = << >>
  /\ inflight = EmptyBag
  /\ cq = << >>
  /\ khead = 0
  /\ buf = NULL
  /\ ret = 0
  /\ i = 0
  /\ cqe_head = 0
  /\ datagram_count = 0
  /\ iter = 0
  /\ outstanding = {}
  /\ released_twice = FALSE
  /\ round_avail = 0
  /\ round_obtained = << >>
  /\ round_prepared = 0
  /\ elapsed = 0
  /\ queue = NoQueue
  /\ ring_exits = 0
  /\ handles = << >>
  /\ free_calls = << >>
  /\ bufring_setup = NoSetup

\* The steps of one call of run(), with the kernel beside it.
RunNext ==
  \/ Initialize
  \/ CreateSocket
  \/ RegisterFiles
  \/ CheckDeadline
  \/ GetBuffer
  \/ GetSqe
  \/ PrepSend
  \/ Submit
  \/ HarvestOne
  \/ CqAdvance
  \/ KernelComplete

Next ==
  \/ MainReserve
  \/ MainNext
  \/ RunNext

\* The whole program.
Spec == Init /\ [][Next]_vars

\* One call of run(), started where main calls it: the pool as reserve left
\* it, the earlier variants done without a datagram counted.
RunInit ==
  /\ pc = "init"
  /\ variant \in 1..3
  /\ exit_code = NoFd
  /\ output = [k \in 1..(variant - 1) |-> [name |-> Name(k), count |-> 0]]
  /\ diag = {}
  /\ call = NoCall
  /\ heap = reserve(EmptyPool, {}, Capacity, 0).heap
  /\ buf_pool = reserve(EmptyPool, {}, Capacity, 0).pool
  /\ ring_open = FALSE
  /\ socket_fd = NoFd
  /\ registered = << >>
  /\ sq = << >>
  /\ inflight = EmptyBag
  /\ cq = << >>
  /\ khead = 0
  /\ buf = NULL
  /\ ret = 0
  /\ i = 0
  /\ cqe_head = 0
  /\ datagram_count = 0
  /\ iter = 0
  /\ outstanding = {}
  /\ released_twice = FALSE
  /\ round_avail = 0
  /\ round_obtained = << >>
  /\ round_prepared = 0
  /\ elapsed = 0
  /\ queue = NoQueue
  /\ ring_exits = 0
  /\ handles = << >>
  /\ free_calls = << >>
  /\ bufring_setup = NoSetup

SpecRun == RunInit /\ [][RunNext]_vars

\* The steps run() itself takes: the thread is scheduled again and again, and
\* every call it makes returns.  Nothing is assumed of the kernel's
\* completions.
RunSteps ==
  \/ Initialize
  \/ CreateSocket
  \/ RegisterFiles
  \/ CheckDeadline
  \/ GetBuffer
  \/ GetSqe
  \/ PrepSend
  \/ Submit
  \/ HarvestOne
  \/ CqAdvance

\* One call of run() under a fair scheduler.
SpecRunFair == RunInit /\ [][RunNext]_vars /\ WF_vars(RunSteps)

(* -------------------------- pool exerciser --------------------------- *)
\* The elements of a sequence.
Range(q) == {q[k] : k \in 1..Len(q)}

\* A caller makes one call after another on a buffer_pool<Capacity>, with
\* any argument: get_buffer.
PoolGet ==
  /\ pc = "pool"
  /\ call.n < MaxCalls
  /\ LET r == get_buffer(buf_pool)
     IN  /\ buf_pool' = r.pool
         /\ call' = [op |-> "get_buffer", arg |-> NULL, ok |-> r.buf # NULL,
                     buf |-> r.buf, was_free |-> FALSE, fail_at |-> 0,
                     n |-> call.n + 1]
  /\ UNCHANGED << pc, variant, exit_code, output, diag, heap, ringVars, localVars,
                  histVars >>
  /\ UNCHANGED << elapsed, queue, ring_exits, handleVars >>

\* release_buffer with any live allocation as its argument.
PoolRelease ==
  /\ pc = "pool"
  /\ call.n < MaxCalls
  /\ \E b \in heap :
       LET r == release_buffer(buf_pool, b)
       IN  /\ buf_pool' = r.pool
           /\ call' = [op |-> "release_buffer", arg |-> b, ok |-> r.ok, buf |-> NULL,
                       was_free |-> b \in Range(PoolFree(buf_pool)), fail_at |-> 0,
                       n |-> call.n + 1]
  /\ UNCHANGED << pc, variant, exit_code, output, diag, heap, ringVars, localVars,
                  histVars >>
  /\ UNCHANGED << elapsed, queue, ring_exits, handleVars >>

\* add_new_buffer, with either outcome of the allocation.
PoolAddNew ==
  /\ pc = "pool"
  /\ call.n < MaxCalls
  /\ \E n \in NewResults(heap) :
       LET r == add_new_buffer(buf_pool, heap, n)
       IN  /\ buf_pool' = r.pool
           /\ heap' = r.heap
           /\ call' = [op |-> "add_new_buffer", arg |-> NULL, ok |-> r.ok,
                       buf |-> NULL, was_free |-> FALSE,
                       fail_at |-> IF n = NULL THEN 1 ELSE 0, n |-> call.n + 1]
  /\ UNCHANGED << pc, variant, exit_code, output, diag, ringVars, localVars,
                  histVars >>
  /\ UNCHANGED << elapsed, queue, ring_exits, handleVars >>

\* reserve(count), the failAt-th allocation failing (0: none).
PoolReserve ==
  /\ pc = "pool"
  /\ call.n < MaxCalls
  /\ \E count \in 0..(Capacity + 1), failAt \in 0..(Capacity + 1) :
       /\ failAt <= count
       /\ LET r == reserve(buf_pool, heap, count, failAt)
          IN  /\ buf_pool' = r.pool
              /\ heap' = r.heap
              /\ call' = [op |-> "reserve", arg |-> count, ok |-> r.ok,
                          buf |-> NULL, was_free |-> FALSE, fail_at |-> failAt,
                          n |-> call.n + 1]
  /\ UNCHANGED << pc, variant, exit_code, output, diag, ringVars, localVars,
                  histVars >>
  /\ UNCHANGED << elapsed, queue, ring_exits, handleVars >>

PoolNext ==
  \/ PoolGet
  \/ PoolRelease
  \/ PoolAddNew
  \/ PoolReserve

\* A freshly constructed buffer_pool (line 133) and nothing else running.
PoolInit ==
  /\ pc = "pool"
  /\ variant = 0
  /\ exit_code = NoFd
  /\ output = << >>
  /\ diag = {}
  /\ call = NoCall
  /\ heap = {}
  /\ buf_pool = EmptyPool
  /\ ring_open = FALSE
  /\ socket_fd = NoFd
  /\ registered = << >>
  /\ sq = << >>
  /\ inflight = EmptyBag
  /\ cq = << >>
  /\ khead = 0
  /\ buf = NULL
  /\ ret = 0
  /\ i = 0
  /\ cqe_head = 0
  /\ datagram_count = 0
  /\ iter = 0
  /\ outstanding = {}
  /\ released_twice = FALSE
  /\ round_avail = 0
  /\ round_obtained = << >>
  /\ round_prepared = 0
  /\ elapsed = 0
  /\ queue = NoQueue
  /\ ring_exits = 0
  /\ handles = << >>
  /\ free_calls = << >>
  /\ bufring_setup = NoSetup

SpecPool == PoolInit /\ [][PoolNext]_vars

(* ------------------- buffer_pool with narrow counters ---------------- *)
\* The buffer_pool with head and tail as unsigned counters of WrapLog + 1
\* bits and a capacity of 2^WrapLog, which divides the modulus of the
\* counters as 256 divides 2^64.
WrapCapacity == 2 ^ WrapLog
WrapModulus == 2 * WrapCapacity

\* tail - head in the arithmetic of the counters.
PoolCountW(p) == (p.tail - p.head + WrapModulus) % WrapModulus

\* The free region as a sequence of handles, oldest first.
PoolFreeW(p) ==
  [k \in 1..PoolCountW(p) |-> p.ring[((p.head + k - 1) % WrapModulus) % WrapCapacity]]

\* buffer_pool::get_buffer with the narrow counters: [buf, size, pool]
get_buffer_w(p) ==
  IF p.head = p.tail
    THEN [buf |-> NULL, size |-> 0, pool |-> p]
    ELSE [buf |-> p.ring[p.head % WrapCapacity], size |-> buf_size,
          pool |-> [p EXCEPT !.head = (@ + 1) % WrapModulus]]

\* Mutant of release_buffer_w: head + Capacity is computed without wrapping.
release_buffer_w_wide(p, b) ==
  IF p.tail = p.head + WrapCapacity
    THEN [ok |-> FALSE, pool |-> p]
    ELSE [ok |-> TRUE,
          pool |-> [p EXCEPT !.ring[p.tail % WrapCapacity] = b,
                             !.tail = (@ + 1) % WrapModulus]]

\* buffer_pool::release_buffer with the narrow counters: [ok, pool]
release_buffer_w(p, b) ==
  IF p.tail = (p.head + WrapCapacity) % WrapModulus
    THEN [ok |-> FALSE, pool |-> p]
    ELSE [ok |-> TRUE,
          pool |-> [p EXCEPT !.ring[p.tail % WrapCapacity] = b,
                             !.tail = (@ + 1) % WrapModulus]]

\* buffer_pool::add_new_buffer with the narrow counters: [ok, pool, heap]
add_new_buffer_w(p, h, n) ==
  IF p.tail = (p.head + WrapCapacity) % WrapModulus
    THEN [ok |-> FALSE, pool |-> p, heap |-> h]
    ELSE IF n = NULL
      THEN [ok |-> FALSE, pool |-> p, heap |-> h]
      ELSE [ok |-> TRUE,
            pool |-> [p EXCEPT !.ring[p.tail % WrapCapacity] = n,
                               !.tail = (@ + 1) % WrapModulus],
            heap |-> h \cup {n}]

\* A caller makes one call after another on the pool: get_buffer.
WrapGet ==
  /\ pc = "wrap"
  /\ call.n < MaxCalls
  /\ LET r == get_buffer_w(buf_pool)
     IN  /\ buf_pool' = r.pool
         /\ call' = [op |-> "get_buffer", arg |-> NULL, ok |-> r.buf # NULL,
                     buf |-> r.buf, was_free |-> FALSE, fail_at |-> 0,
                     n |-> call.n + 1]
  /\ UNCHANGED << pc, variant, exit_code, output, diag, heap, ringVars, localVars,
                  histVars, elapsed, queue, ring_exits, handleVars >>

\* release_buffer of a buffer the caller holds: allocated and not in the pool.
WrapRelease ==
  /\ pc = "wrap"
  /\ call.n < MaxCalls
  /\ \E b \in heap \ Range(PoolFreeW(buf_pool)) :
       LET r == release_buffer_w(buf_pool, b)
       IN  /\ buf_pool' = r.pool
           /\ call' = [op |-> "release_buffer", arg |-> b, ok |-> r.ok, buf |-> NULL,
                       was_free |-> FALSE, fail_at |-> 0, n |-> call.n + 1]
  /\ UNCHANGED << pc, variant, exit_code, output, diag, heap, ringVars, localVars,
                  histVars, elapsed, queue, ring_exits, handleVars >>

\* add_new_buffer, with either outcome of the allocation.
WrapAddNew ==
  /\ pc = "wrap"
  /\ call.n < MaxCalls
  /\ \E n \in NewResults(heap) :
       LET r == add_new_buffer_w(buf_pool, heap, n)
       IN  /\ buf_pool' = r.pool
           /\ heap' = r.heap
           /\ call' = [op |-> "add_new_buffer", arg |-> NULL, ok |-> r.ok,
                       buf |-> NULL, was_free |-> FALSE,
                       fail_at |-> IF n = NULL THEN 1 ELSE 0, n |-> call.n + 1]
  /\ UNCHANGED << pc, variant, exit_code, output, diag, ringVars, localVars,
                  histVars, elapsed, queue, ring_exits, handleVars >>

WrapNext ==
  \/ WrapGet
  \/ WrapRelease
  \/ WrapAddNew

\* The pool after add_new_buffer, get_buffer and then c - 1 times
\* release_buffer, get_buffer of the one buffer (c = 0: the pool as
\* constructed): empty, the counters at c, the buffer with the caller.
WrapStart(c) ==
  [ring |-> [k \in 0..(WrapCapacity - 1) |-> IF k < c THEN 1 ELSE NULL],
   head |-> c, tail |-> c]

\* The pool is empty with its counters anywhere.
WrapInit ==
  /\ pc = "wrap"
  /\ variant = 0
  /\ exit_code = NoFd
  /\ output = << >>
  /\ diag = {}
  /\ call = NoCall
  /\ \E c \in 0..(WrapModulus - 1) :
       /\ buf_pool = WrapStart(c)
       /\ heap = IF c = 0 THEN {} ELSE {1}
  /\ ring_open = FALSE
  /\ socket_fd = NoFd
  /\ registered = << >>
  /\ sq = << >>
  /\ inflight = EmptyBag
  /\ cq = << >>
  /\ khead = 0
  /\ buf = NULL
  /\ ret = 0
  /\ i = 0
  /\ cqe_head = 0
  /\ datagram_count = 0
  /\ iter = 0
  /\ outstanding = {}
  /\ released_twice = FALSE
  /\ round_avail = 0
  /\ round_obtained = << >>
  /\ round_prepared = 0
  /\ elapsed = 0
  /\ queue = NoQueue
  /\ ring_exits = 0
  /\ handles = << >>
  /\ free_calls = << >>
  /\ bufring_setup = NoSetup

SpecWrap == WrapInit /\ [][WrapNext]_vars

(* ---------------------- owned_io_uring_buf_ring ---------------------- *)
\* Pointer values: the io_uring passed to setup, the buffer ring
\* io_uring_setup_buf_ring creates, and any other address.
RingPtr == 1
BufRingPtr == 2
WildPtr == 3

\* Arguments setup is called with.
EntryCounts == {1, 2}
GroupIds == {0, 1}

\* Values a read of a pointer member that was never initialised can give.
IndeterminatePtrs == {NULL, RingPtr, WildPtr}

\* The constructor of lines 63-66: ring_ is not in the initialiser list and
\* has no default, so it holds the indeterminate value u; the parameter ring
\* is not used.
owned_io_uring_buf_ring_ctor(ring, created, entry_count, group_id, u) ==
  [ring_ |-> u, buf_ring |-> created, entry_count_ |-> entry_count,
   buffer_group_id_ |-> group_id, alive |-> TRUE]

\* The move constructor of lines 68-71: only ring_ is copied; buf_ring takes
\* its default nullptr, entry_count_ and buffer_group_id_ are left
\* indeterminate (uc, ug): [new, other]
owned_io_uring_buf_ring_move(other, uc, ug) ==
  [new |-> [ring_ |-> other.ring_, buf_ring |-> NULL, entry_count_ |-> uc,
            buffer_group_id_ |-> ug, alive |-> TRUE],
   other |-> [other EXCEPT !.ring_ = NULL]]

\* The destructor of lines 75-78: the calls of io_uring_free_buf_ring after it.
owned_io_uring_buf_ring_dtor(h, calls) ==
  IF h.ring_ # NULL
    THEN Append(calls, [ring |-> h.ring_, buf_ring |-> h.buf_ring,
                        entry_count |-> h.entry_count_,
                        group_id |-> h.buffer_group_id_])
    ELSE calls

\* setup(ring, entry_count, buffer_group_id, flags), lines 49-61:
\* io_uring_setup_buf_ring yields a buffer ring or nullptr; the test of line
\* 56 is on ring; the handle constructed at line 59 is moved into the
\* std::expected returned and the temporary is destroyed.
BufRingSetup ==
  /\ pc = "bufring"
  /\ ~bufring_setup.called
  /\ \E ec \in EntryCounts, g \in GroupIds, created \in {NULL, BufRingPtr},
        u \in IndeterminatePtrs, uc \in EntryCounts, ug \in GroupIds :
       LET ring == RingPtr
           tmp == owned_io_uring_buf_ring_ctor(ring, created, ec, g, u)
           m == owned_io_uring_buf_ring_move(tmp, uc, ug)
       IN  IF ring = NULL
             THEN /\ bufring_setup' = [called |-> TRUE, ring |-> ring,
                                       entry_count |-> ec, group_id |-> g,
                                       created |-> created, returned |-> "error"]
                  /\ UNCHANGED << handles, free_calls >>
             ELSE /\ bufring_setup' = [called |-> TRUE, ring |-> ring,
                                       entry_count |-> ec, group_id |-> g,
                                       created |-> created, returned |-> "handle"]
                  /\ handles' = << m.new >>
                  /\ free_calls' = owned_io_uring_buf_ring_dtor(m.other, free_calls)
  /\ UNCHANGED << pc, mainVars, diag, heap, buf_pool, ringVars, localVars, histVars,
                  elapsed, queue, ring_exits >>

\* A live handle is moved into a new one.
BufRingMove ==
  /\ pc = "bufring"
  /\ Len(handles) <= MaxMoves
  /\ \E k \in 1..Len(handles), uc \in EntryCounts, ug \in GroupIds :
       /\ handles[k].alive
       /\ LET m == owned_io_uring_buf_ring_move(handles[k], uc, ug)
          IN  handles' = Append([handles EXCEPT ![k] = m.other], m.new)
  /\ UNCHANGED << pc, mainVars, diag, heap, buf_pool, ringVars, localVars, histVars,
                  elapsed, queue, ring_exits, free_calls, bufring_setup >>

\* A live handle is destroyed.
BufRingDestroy ==
  /\ pc = "bufring"
  /\ \E k \in 1..Len(handles) :
       /\ handles[k].alive
       /\ free_calls' = owned_io_uring_buf_ring_dtor(handles[k], free_calls)
       /\ handles' = [handles EXCEPT ![k].alive = FALSE]
  /\ UNCHANGED << pc, mainVars, diag, heap, buf_pool, ringVars, localVars, histVars,
                  elapsed, queue, ring_exits, bufring_setup >>

BufRingNext ==
  \/ BufRingSetup
  \/ BufRingMove
  \/ BufRingDestroy

\* Nothing is set up yet.
BufRingInit ==
  /\ pc = "bufring"
  /\ variant = 0
  /\ exit_code = NoFd
  /\ output = << >>
  /\ diag = {}
  /\ call = NoCall
  /\ heap = {}
  /\ buf_pool = EmptyPool
  /\ ring_open = FALSE
  /\ socket_fd = NoFd
  /\ registered = << >>
  /\ sq = << >>
  /\ inflight = EmptyBag
  /\ cq = << >>
  /\ khead = 0
  /\ buf = NULL
  /\ ret = 0
  /\ i = 0
  /\ cqe_head = 0
  /\ datagram_count = 0
  /\ iter = 0
  /\ outstanding = {}
  /\ released_twice = FALSE
  /\ round_avail = 0
  /\ round_obtained = << >>
  /\ round_prepared = 0
  /\ elapsed = 0
  /\ queue = NoQueue
  /\ ring_exits = 0
  /\ handles = << >>
  /\ free_calls = << >>
  /\ bufring_setup = NoSetup

SpecBufRing == BufRingInit /\ [][BufRingNext]_vars

(* ------------------------ ownership of buffers ----------------------- *)
\* Completion records the harvest has not yet processed.
Unharvested == {k \in 1..Len(cq) : k > cqe_head}

\* Sends of the current ring that carry buffer b: prepared in the submission
\* queue, in flight, or completed and not yet harvested; and the buffer the
\* fill loop holds between get_buffer and the prepare.
TagCount(b) ==
    Cardinality({k \in 1..Len(sq) : sq[k].user_data = b})
  + BagCardinality([s \in {t \in BagToSet(inflight) : t.user_data = b} |-> inflight[s]])
  + Cardinality({k \in Unharvested : cq[k].user_data = b})
  + (IF buf = b THEN 1 ELSE 0)

\* Entries of the pool's free region [head, tail) that hold buffer b.
FreeCount(b) ==
  Cardinality({k \in 1..PoolCount(buf_pool) : PoolFree(buf_pool)[k] = b})

\* Number of buffers attached to a send of the current ring (or in the hands
\* of the fill loop on their way to one).
AttachedCount ==
    Cardinality({k \in 1..Len(sq) : sq[k].user_data # NULL})
  + BagCardinality(inflight)
  + Cardinality(Unharvested)
  + (IF buf # NULL THEN 1 ELSE 0)

(* ------------------------------ claims ------------------------------- *)
\* C1: conservation for the ring-buffer pool.  At every point of every run
\* that uses the pool, the "fixed files" run after the "buffer pool" run
\* included, the buffers in the pool (tail - head) plus the buffers attached
\* to a send of the current ring that is not yet harvested number Capacity.
\* (The buffer the fill loop holds between get_buffer and the prepare is
\* counted with the sends.)
C1_Conservation ==
  (UsesPool /\ pc \in RunPcs) => PoolCount(buf_pool) + AttachedCount = Capacity

\* C2: round trip.  When run() has returned at the deadline, every buffer a
\* successful get_buffer() returned in it has been passed to release_buffer()
\* exactly once: none is still out, none was released twice.
C2_RoundTrip ==
  pc = "ret_true" => (outstanding = {} /\ ~released_twice)

\* C3: ownership.  In every state of a run with the buffer_pool, a buffer is
\* at most once anywhere: in the free region [head, tail) of the pool, or the
\* tag of a send that is prepared or submitted and not yet harvested (or in
\* the hands of the fill loop); and no buffer was released without being out.
C3_Ownership ==
  (UsesPool /\ pc \in RunPcs) =>
    /\ \A b \in Addr : FreeCount(b) + TagCount(b) <= 1
    /\ ~released_twice

\* C3 witness: a pool run in its second harvest with a buffer in each place:
\* free, prepared, in flight, completed and not harvested, and one harvested.
C3_Witness ==
  /\ UsesPool
  /\ pc = "harvest"
  /\ PoolCount(buf_pool) > 0
  /\ BagCardinality(inflight) > 0
  /\ Unharvested # {}
  /\ cqe_head > 0

\* C4: single-release detection.  A call of release_buffer with a buffer
\* that is already in the free region of the pool is rejected: it returns
\* false and leaves head, tail and the stored handles as they were.
C4_SingleRelease ==
  [][(call'.n # call.n /\ call'.op = "release_buffer" /\ call'.was_free)
       => (~call'.ok /\ buf_pool' = buf_pool)]_vars

\* C5: a submission shortfall is fatal.  Whenever io_uring_submit returns a
\* value different from the number of sends prepared since the previous
\* submit, run() returns failure.
C5_ShortfallFatal ==
  [][(pc = "submit" /\ pc' # "submit" /\ ret' # round_prepared)
       => pc' = "ret_false"]_vars

\* Sends prepared in the submission queue (the entry just acquired and not
\* yet written excluded).
PreparedEntries == {sq[k] : k \in {j \in 1..Len(sq) : ~(pc = "prep" /\ j = Len(sq))}}

\* C6: fixed-file addressing.  With fixed_files the loop runs only after the
\* socket was registered, and every send prepared carries IOSQE_FIXED_FILE
\* and addresses index 0, the one registered slot; without fixed_files no
\* send carries the flag and every send addresses the raw descriptor.  No
\* send is prepared before the loop, and a failed registration ends the run
\* with failure.
C6_FixedFile ==
  /\ pc \in LoopPcs =>
       /\ fixed_files => registered = << socket_fd >>
       /\ \A s \in PreparedEntries \cup BagToSet(inflight) :
            IF fixed_files
              THEN s.flags = IOSQE_FIXED_FILE /\ s.fd = Len(registered) - 1 /\ s.fd = 0
              ELSE s.flags = 0 /\ s.fd = socket_fd /\ socket_fd \in Fds
  /\ pc \in {"init", "socket", "register"} => (sq = << >> /\ inflight = EmptyBag)
  /\ "io_uring_register_files" \in diag => pc = "ret_false"

\* C6 witness: the fixed-files run in its second round, sends of the first
\* round in flight and sends of the second prepared.
C6_Witness ==
  /\ fixed_files
  /\ iter = 2
  /\ pc = "submit"
  /\ PreparedEntries # {}
  /\ inflight # EmptyBag

\* The tags of the sends prepared in the current fill round: the last
\* round_prepared entries of the submission queue.
RoundTags == [k \in 1..round_prepared |-> sq[Len(sq) - round_prepared + k].user_data]

\* C7: boundary, no phantom submission.  When get_buffer yields nothing the
\* fill phase ends without acquiring a slot; when no slot is available the
\* buffer just obtained goes back to the allocator; and at the end of every
\* fill round the sends prepared in it are as many as the buffers the round
\* took from the allocator and did not give back, each send tagged with a
\* different buffer obtained in that round.
C7_Boundary ==
  /\ [](pc = "submit" =>
          /\ round_prepared <= Len(sq)
          /\ round_prepared = round_avail - Available
          /\ \A j, k \in 1..round_prepared : RoundTags[j] = RoundTags[k] => j = k
          /\ \A k \in 1..round_prepared : RoundTags[k] \in Range(round_obtained))
  /\ [][/\ (pc = "get_buffer" /\ pc' = "submit")
             => (sq' = sq /\ Available' = Available)
        /\ (pc = "get_sqe" /\ pc' = "submit")
             => (sq' = sq /\ Available' = Available + 1)]_vars

\* C7 witness: a pool run at the end of a fill round that the empty pool
\* ended, after at least one send was prepared in it.
C7_Witness ==
  /\ UsesPool
  /\ pc = "submit"
  /\ PoolCount(buf_pool) = 0
  /\ round_prepared > 0
  /\ Len(round_obtained) = round_prepared

\* A step of run() that processes the completion record under the cursor
\* (a step of the kernel appends a record instead).
HarvestStep == pc = "harvest" /\ cqe_head < Len(cq) /\ Len(cq') # Len(cq) + 1

\* The completion record under the cursor of the harvest loop.
CurrentCqe == cq[cqe_head + 1]

\* The diagnostics of the failures that end run().
FatalDiags ==
  {"io_uring_queue_init", "socket", "io_uring_register_files",
   "io_uring_submit", "sendto"}

\* C8: a negative completion is fatal.  Harvesting a completion record with a
\* negative result releases the buffer of the record and then makes run()
\* return failure at once: no summary line is printed for the run and the
\* ring is torn down; a record with a non-negative result does not end the
\* run.  The loop never runs on a closed ring.
C8_NegativeFatal ==
  /\ [](/\ pc = "ret_false" => (Len(output) = variant - 1 /\ ~ring_open)
        /\ pc \in LoopPcs => ring_open)
  /\ [][/\ (HarvestStep /\ CurrentCqe.res < 0)
             => /\ pc' = "ret_false"
                /\ "sendto" \in diag'
                /\ output' = output
                /\ IF UsesPool
                     THEN CurrentCqe.user_data \in Range(PoolFree(buf_pool'))
                     ELSE CurrentCqe.user_data \notin heap'
        /\ (HarvestStep /\ CurrentCqe.res >= 0)
             => (pc' = "harvest" /\ diag' = diag)]_vars

\* C8 witness: run() has returned failure on a failed send.
C8_Witness == pc = "ret_false" /\ "sendto" \in diag /\ ~ring_open

\* The number of records with a non-negative result among the first n of the
\* completion log.
NonNegative(n) == Cardinality({k \in 1..n : cq[k].res >= 0})

\* C9: cumulative tally.  datagram_count is the number of completion records
\* with a non-negative result harvested since run() began, whatever round
\* submitted them; it never exceeds the number of sends submitted; and the
\* summary line printed at the deadline reports that count.
C9_Tally ==
  /\ [](pc \in LoopPcs =>
          /\ datagram_count = NonNegative(cqe_head)
          /\ cqe_head = (IF pc = "harvest" THEN khead + i ELSE khead)
          /\ datagram_count <= Len(cq)
          /\ datagram_count <= Len(cq) + BagCardinality(inflight))
  /\ [][(pc = "deadline" /\ pc' = "ret_true")
          => output' = Append(output, [name |-> Name(variant),
                                       count |-> NonNegative(khead)])]_vars

\* C9 witness: in the second round the harvest loop has taken more records
\* than the round submitted.
C9_Witness ==
  /\ pc = "harvest"
  /\ iter = 2
  /\ i > ret
  /\ datagram_count >= 2

\* C10: backpressure is never failure.  An allocator that yields nothing and
\* a submission queue without a free slot only end the fill phase; run()
\* returns failure only where it initialises the ring, opens the socket,
\* registers it, submits (io_uring_submit returned an error) or harvests a
\* failed send, each time with the diagnostic of that failure.
C10_Backpressure ==
  /\ [](/\ pc = "ret_false" => diag \cap FatalDiags # {}
        /\ pc = "ret_true" => diag \cap FatalDiags = {})
  /\ [][/\ (pc' = "ret_false" /\ pc # "ret_false")
             => \/ pc \in {"init", "socket", "register"}
                \/ pc = "submit" /\ ret' < 0
                \/ pc = "harvest" /\ cqe_head < Len(cq) /\ CurrentCqe.res < 0
        /\ (pc \in {"get_buffer", "get_sqe"} /\ pc' # pc)
             => (pc' \in {"get_sqe", "prep", "submit"} /\ exit_code' = exit_code)]_vars

\* C10 witness: a run whose allocator ran dry has returned success.
C10_Witness == pc = "ret_true" /\ "Not enough buffers." \in diag

C12_RingTeardown ==
  /\ [](ring_exits <= 1)
  /\ [](pc \in ({"socket", "register"} \cup LoopPcs)
          => (ring_open /\ ring_exits = 0 /\ queue.enter_ring_fd \in RingFds))
  /\ [](pc \in {"ret_true", "ret_false"}
          => /\ ~ring_open
             /\ queue = NoQueue
             /\ ring_exits = (IF "io_uring_queue_init" \in diag THEN 0 ELSE 1))
  /\ [][ring_exits' # ring_exits
          => (ring_exits' = ring_exits + 1 /\ pc' \in {"ret_true", "ret_false"})]_vars

\* C12 witness: the fixed-files run has returned at the deadline and its
\* ring was torn down.
C12_Witness ==
  /\ pc = "ret_true"
  /\ fixed_files
  /\ ring_exits = 1
  /\ ~ring_open

\* C13: process exit and variant ordering.  main exits with status 0 exactly
\* when reserve succeeded and the three runs returned success, which is when
\* the three summary lines were printed and no failure was reported; the
\* summary lines are those of "basic", "buffer pool", "fixed files" in that
\* order; a variant runs only after every earlier one succeeded and nothing
\* failed; and a run that returns failure makes main exit with a nonzero
\* status at once, nothing more being started or printed.
C13_ExitOrdering ==
  /\ [](pc = "exit" =>
          /\ exit_code \in {EXIT_SUCCESS, EXIT_FAILURE}
          /\ exit_code = EXIT_SUCCESS <=> Len(output) = 3
          /\ exit_code = EXIT_SUCCESS <=>
               diag \cap (FatalDiags \cup {"Failed to create buffer pool."}) = {})
  /\ [](pc # "exit" => exit_code = NoFd)
  /\ [](Len(output) <= 3 /\ \A k \in 1..Len(output) : output[k].name = Name(k))
  /\ [](pc \in RunPcs =>
          /\ variant \in 1..3
          /\ Len(output) = variant - 1
          /\ diag \cap (FatalDiags \cup {"Failed to create buffer pool."}) = {})
  /\ [][pc = "ret_false"
          => (pc' = "exit" /\ exit_code' = EXIT_FAILURE /\ output' = output)]_vars
  /\ [][pc # "exit"]_vars

\* C13 witness: the second variant failed on a send; main has exited with a
\* nonzero status after the summary line of the first variant only.
C13_Witness ==
  /\ pc = "exit"
  /\ exit_code = EXIT_FAILURE
  /\ variant = 2
  /\ Len(output) = 1
  /\ "sendto" \in diag

\* C14: requested queue depth.  The ring run() works on has the submission
\* depth it asked initialize for: never more than RequestedEntries entries
\* are acquired and not yet submitted.
C14_QueueDepth ==
  pc \in LoopPcs => Len(sq) <= RequestedEntries

\* n consecutive calls of get_buffer on pool p: the handles and the sizes of
\* the spans returned, in order, and the pool afterwards.
RECURSIVE GetMany(_, _)
GetMany(p, n) ==
  IF n = 0
    THEN [bufs |-> << >>, sizes |-> << >>, pool |-> p]
    ELSE LET g == get_buffer(p)
             r == GetMany(g.pool, n - 1)
         IN  [bufs |-> << g.buf >> \o r.bufs, sizes |-> << g.size >> \o r.sizes,
              pool |-> r.pool]

\* C15: scenario A for any position of the counters.  reserve(Capacity) on an
\* empty pool, no allocation failing, returns true and leaves Capacity free
\* buffers; the next Capacity calls of get_buffer return non-empty, pairwise
\* distinct buffers of size buf_size and leave the pool empty; one more
\* get_buffer returns an empty span and leaves the pool as it is.
C15_ScenarioA ==
  [][(/\ call'.n # call.n
      /\ call'.op = "reserve"
      /\ call'.arg = Capacity
      /\ call'.fail_at = 0
      /\ Cardinality(Addr \ heap) >= Capacity
      /\ PoolCount(buf_pool) = 0)
     => LET g == GetMany(buf_pool', Capacity)
            last == get_buffer(g.pool)
        IN  /\ call'.ok
            /\ PoolCount(buf_pool') = Capacity
            /\ \A k \in 1..Capacity : g.bufs[k] # NULL /\ g.sizes[k] = buf_size
            /\ \A j, k \in 1..Capacity : g.bufs[j] = g.bufs[k] => j = k
            /\ PoolCount(g.pool) = 0
            /\ last.buf = NULL
            /\ last.size = 0
            /\ last.pool = g.pool]_vars

\* C15 witness: reserve(Capacity) has just filled a pool that was empty with
\* its counters away from 0.
C15_Witness ==
  /\ call.op = "reserve"
  /\ call.arg = Capacity
  /\ call.ok
  /\ PoolCount(buf_pool) = Capacity
  /\ buf_pool.head > 0

\* C16: pool occupancy and FIFO order.  After any sequence of calls
\* 0 <= tail - head <= Capacity; get_buffer yields nothing exactly when
\* head = tail and release_buffer is refused exactly when tail = head +
\* Capacity; a get_buffer on the empty pool and a release_buffer or
\* add_new_buffer on the full pool change nothing; and the free region is a
\* queue: release_buffer and add_new_buffer append to it, get_buffer returns
\* and removes its oldest handle.
C16_OccupancyFifo ==
  /\ [](/\ 0 <= PoolCount(buf_pool)
        /\ PoolCount(buf_pool) <= Capacity
        /\ get_buffer(buf_pool).buf = NULL <=> buf_pool.head = buf_pool.tail
        /\ \A b \in heap :
             ~release_buffer(buf_pool, b).ok
               <=> buf_pool.tail = buf_pool.head + Capacity)
  /\ [][(call'.n # call.n /\ call'.op = "get_buffer")
          => IF buf_pool.head = buf_pool.tail
               THEN ~call'.ok /\ call'.buf = NULL /\ buf_pool' = buf_pool
               ELSE /\ call'.ok
                    /\ call'.buf = Head(PoolFree(buf_pool))
                    /\ PoolFree(buf_pool') = Tail(PoolFree(buf_pool))]_vars
  /\ [][(call'.n # call.n /\ call'.op = "release_buffer")
          => IF buf_pool.tail = buf_pool.head + Capacity
               THEN ~call'.ok /\ buf_pool' = buf_pool
               ELSE /\ call'.ok
                    /\ PoolFree(buf_pool') = Append(PoolFree(buf_pool), call'.arg)]_vars
  /\ [][(call'.n # call.n /\ call'.op = "add_new_buffer")
          => IF buf_pool.tail = buf_pool.head + Capacity \/ ~call'.ok
               THEN ~call'.ok /\ buf_pool' = buf_pool /\ heap' = heap
               ELSE \E b \in heap' \ heap :
                      /\ heap' = heap \cup {b}
                      /\ PoolFree(buf_pool') = Append(PoolFree(buf_pool), b)]_vars

\* C16 witness: a get_buffer has succeeded after the tail went past Capacity,
\* the pool still holding a buffer.
C16_Witness ==
  /\ call.op = "get_buffer"
  /\ call.ok
  /\ buf_pool.tail > Capacity
  /\ PoolCount(buf_pool) > 0

\* C17: reserve has no rollback.  reserve(count) returns true exactly when
\* it added count buffers; whatever it returns, the pool holds what it held
\* before, in the same order, followed by the buffers added, each a new
\* allocation, and nothing was freed; when it returns false it added fewer
\* than count, stopping at the allocation that failed or at the full pool.
C17_ReserveNoRollback ==
  [][(call'.n # call.n /\ call'.op = "reserve")
       => LET before == PoolCount(buf_pool)
              added == PoolCount(buf_pool') - before
          IN  /\ call'.ok <=> added = call'.arg
              /\ added >= 0
              /\ added <= call'.arg
              /\ buf_pool'.head = buf_pool.head
              /\ SubSeq(PoolFree(buf_pool'), 1, before) = PoolFree(buf_pool)
              /\ heap \subseteq heap'
              /\ Cardinality(heap' \ heap) = added
              /\ Range(SubSeq(PoolFree(buf_pool'), before + 1, before + added))
                   = heap' \ heap
              /\ ~call'.ok =>
                   \/ PoolCount(buf_pool') = Capacity
                   \/ added = call'.fail_at - 1
                   \/ Addr \ heap' = {}]_vars

\* C17 witness: a reserve has failed at its second allocation and the buffer
\* of the first is in the pool.
C17_Witness ==
  /\ call.op = "reserve"
  /\ ~call.ok
  /\ call.fail_at = 2
  /\ PoolCount(buf_pool) >= 1
  /\ PoolCount(buf_pool) < Capacity

\* C18: harvest under asynchronous completion.  However the kernel spreads
\* its completions over the run, the records up to the cursor of the harvest
\* loop are the records processed, each once: outside a harvest the cursor is
\* at the completion-queue head, inside it i records beyond; a harvest starts
\* at the head; processing a record with a non-negative result moves the
\* cursor by one and releases the buffer the record names; and
\* io_uring_cq_advance moves the head by the number of records the harvest
\* processed, up to the cursor, when no record is ready beyond it.
C18_HarvestAsync ==
  /\ [](pc \in LoopPcs =>
          /\ cqe_head = (IF pc = "harvest" THEN khead + i ELSE khead)
          /\ cqe_head <= Len(cq)
          /\ datagram_count = cqe_head)
  /\ [][(pc = "submit" /\ pc' = "harvest") => (cqe_head' = khead /\ i' = 0)]_vars
  /\ [][(HarvestStep /\ CurrentCqe.res >= 0)
          => /\ cqe_head' = cqe_head + 1
             /\ i' = i + 1
             /\ khead' = khead
             /\ cq' = cq
             /\ outstanding' = outstanding \ {CurrentCqe.user_data}
             /\ IF UsesPool
                  THEN PoolFree(buf_pool')
                         = Append(PoolFree(buf_pool), CurrentCqe.user_data)
                  ELSE heap' = heap \ {CurrentCqe.user_data}]_vars
  /\ [][(pc = "harvest" /\ pc' = "deadline")
          => /\ khead' = khead + i
             /\ khead' = cqe_head
             /\ cqe_head = Len(cq)
             /\ cq' = cq]_vars

\* C18 witness: in a harvest after the first, with the head advanced, two or
\* more records are ready beyond the cursor while a send is still in flight.
C18_Witness ==
  /\ pc = "harvest"
  /\ khead > 0
  /\ Len(cq) >= cqe_head + 2
  /\ inflight # EmptyBag

\* C19: counter wraparound.  With head and tail counters of WrapLog + 1 bits
\* and a capacity that divides their modulus, across calls in which head or
\* tail wraps: the occupancy stays within the capacity; get_buffer yields
\* nothing exactly when the pool holds nothing and release_buffer is refused
\* exactly when it holds WrapCapacity buffers; the free handles are pairwise
\* different, so none is returned twice; and the free region is a queue:
\* release_buffer and add_new_buffer append to it without touching a free
\* handle, get_buffer returns and removes the oldest.
C19_Wraparound ==
  /\ [](/\ PoolCountW(buf_pool) <= WrapCapacity
        /\ get_buffer_w(buf_pool).buf = NULL <=> PoolCountW(buf_pool) = 0
        /\ \A b \in heap :
             ~release_buffer_w(buf_pool, b).ok
               <=> PoolCountW(buf_pool) = WrapCapacity
        /\ \A j, k \in 1..PoolCountW(buf_pool) :
             PoolFreeW(buf_pool)[j] = PoolFreeW(buf_pool)[k] => j = k)
  /\ [][(call'.n # call.n /\ call'.op = "get_buffer")
          => IF PoolCountW(buf_pool) = 0
               THEN ~call'.ok /\ call'.buf = NULL /\ buf_pool' = buf_pool
               ELSE /\ call'.ok
                    /\ call'.buf = Head(PoolFreeW(buf_pool))
                    /\ PoolFreeW(buf_pool') = Tail(PoolFreeW(buf_pool))]_vars
  /\ [][(call'.n # call.n /\ call'.op = "release_buffer")
          => IF PoolCountW(buf_pool) = WrapCapacity
               THEN ~call'.ok /\ buf_pool' = buf_pool
               ELSE /\ call'.ok
                    /\ PoolFreeW(buf_pool') = Append(PoolFreeW(buf_pool), call'.arg)]_vars
  /\ [][(call'.n # call.n /\ call'.op = "add_new_buffer")
          => IF PoolCountW(buf_pool) = WrapCapacity \/ ~call'.ok
               THEN ~call'.ok /\ buf_pool' = buf_pool /\ heap' = heap
               ELSE \E b \in heap' \ heap :
                      /\ heap' = heap \cup {b}
                      /\ PoolFreeW(buf_pool') = Append(PoolFreeW(buf_pool), b)]_vars

\* C19 witness: the tail has wrapped and the head has not, and a call has
\* just filled the pool.
C19_Witness ==
  /\ pc = "wrap"
  /\ buf_pool.tail < buf_pool.head
  /\ PoolCountW(buf_pool) = WrapCapacity
  /\ call.op \in {"release_buffer", "add_new_buffer"}
  /\ call.ok

\* C20: kernel buffer-ring handle.  setup returns an error and no handle when
\* io_uring_setup_buf_ring yields no buffer ring; io_uring_free_buf_ring is
\* called at most once, with the ring, the buffer ring, the entry count and
\* the group id of the setup; and once every handle is destroyed it has been
\* called.
C20_BufRingHandle ==
  bufring_setup.called =>
    /\ bufring_setup.created = NULL
         => (bufring_setup.returned = "error" /\ handles = << >>)
    /\ Len(free_calls) <= 1
    /\ \A k \in 1..Len(free_calls) :
         free_calls[k] = [ring |-> bufring_setup.ring,
                          buf_ring |-> bufring_setup.created,
                          entry_count |-> bufring_setup.entry_count,
                          group_id |-> bufring_setup.group_id]
    /\ (bufring_setup.returned = "handle"
          /\ \A k \in 1..Len(handles) : ~handles[k].alive)
         => Len(free_calls) = 1

=============================================================================
